---- MODULE Spec2Model ----
(***************************************************************************)
(* A model of the SQLTools extension host (packages/extension/index.ts):   *)
(* command dispatch with before/after hooks and the plugin registry, and   *)
(* of the query-results panel (connection-manager/ui/screens/Results).     *)
(*                                                                         *)
(* JavaScript runs every synchronous stretch of code to completion, so an  *)
(* action is one such stretch (one "turn"): a call from the event loop up  *)
(* to its return or to its first suspension at an await.                   *)
(***************************************************************************)
EXTENDS Integers, Sequences, FiniteSets, TLC

(***************************************************************************)
(* Bounds of the model.                                                    *)
(***************************************************************************)
MaxHooks == 2        \* hook registrations over all commands and both phases
MaxDispatches == 2   \* command invocations
MaxHanded == 3       \* plugins handed to registerPlugin by its callers
MaxTabs == 2         \* results in a queryResults message
MaxPage == 2         \* page numbers asked of changePage

(***************************************************************************)
(* State.                                                                  *)
(***************************************************************************)
\* The extension host's dispatcher (Part 1).
VARIABLES
  willRunCommandHooks,             \* command -> sequence of hooks
  didRunCommandSuccessfullyHooks,  \* command -> sequence of hooks
  registered,                      \* commands bound by decorateAndRegisterCommand
  dispatches,                      \* sequence of invocations of the dispatcher
  turn                             \* number of turns the dispatcher has taken

dispatchVars == <<willRunCommandHooks, didRunCommandSuccessfullyHooks,
                  registered, dispatches, turn>>

\* The extension host's plugin registry (Part 2).
VARIABLES
  pluginsQueue,          \* this.pluginsQueue
  extPlugins,            \* this.extPlugins: type -> list of extension ids
  loaded,                \* this.loaded
  writePending,          \* a debounced updateExtPluginsInfo is scheduled
  persistedExtPlugins,   \* what updateExtPluginsInfo last wrote
  registerCalls,         \* plugin -> how often its register was invoked
  handed,                \* plugins handed to registerPlugin by callers so far
  lastCall               \* what the last call did: its passes, reports, trace

pluginVars == <<pluginsQueue, extPlugins, loaded, writePending,
                persistedExtPlugins, registerCalls, handed, lastCall>>

\* The results panel (Part 3).
VARIABLES
  state,       \* the reducer's state, which stateRef.current follows
  mounted,     \* the Screen component is mounted
  viewState,   \* what getVscode().setState last stored
  sent,        \* the messages the last operation sent to the host, in order
  lastOp,      \* the last operation of the panel and its input
  issued,      \* requestIds of the last two re-run and pagination calls sent
  answered     \* a response to the latest of them has been handled

panelVars == <<state, mounted, viewState, sent, lastOp, issued, answered>>

vars == <<dispatchVars, pluginVars, panelVars>>

(***************************************************************************)
(* Part 1. Command dispatch: index.ts, lines 214-283.                      *)
(***************************************************************************)

\* Command names handed to registerCommand / addBeforeCommandHook.
Commands == {"run", "fmt"}

\* The args list of an invocation, as an opaque value.
ArgLists == {"a1", "a2"}

\* Hook callbacks.  What a hook does when called is its own business: "hx"
\* throws, the others return.
HookIds == {"h1", "h2", "hx"}
HookThrows(h) == h = "hx"

\* What a handler can return without failing: undefined, null, some other
\* value without then/catch ("v1"), an object that has a catch function but no
\* then ("catchOnly"), a promise ("promise").
PlainValues == {"undefined", "null", "v1"}
PendingShapes == {"promise", "catchOnly"}
\* What a promise can resolve to.
ResolvedValues == {"undefined", "v1"}
\* A handler call's outcome: a synchronous throw, or a returned value.
HandlerOutcomes == {"throw"} \cup PlainValues \cup PendingShapes

NoEvent == [command |-> "-", args |-> "-", result |-> "-"]

\* Array.prototype.forEach(hook => hook(evt)): the hooks called, in order,
\* up to and including the first one that throws (the throw leaves forEach).
RECURSIVE ForEachHook(_)
ForEachHook(hooks) ==
  IF hooks = <<>> THEN <<>>
  ELSE IF HookThrows(Head(hooks)) THEN <<Head(hooks)>>
  ELSE <<Head(hooks)>> \o ForEachHook(Tail(hooks))

\* onWillRunCommandHandler / onDidRunCommandSuccessfullyHandler: the hooks
\* called for an event on `command`, given the phase's table of hooks.
OnCommandEventHandler(table, command) ==
  IF command = "" THEN <<>>                    \* if (!evt.command) return;
  ELSE IF Len(table[command]) = 0 THEN <<>>    \* no list, or an empty one
  ELSE ForEachHook(table[command])

\* EventEmitter.fire of vscode: the listener is called synchronously and an
\* error it throws is caught by the emitter (reported as an unexpected
\* error), so fire returns normally whatever the hooks do.
Tag(kind, hooks) == [i \in 1..Len(hooks) |-> <<kind, hooks[i]>>]
FireWillRun(command) ==
  <<<<"willRun", "">>>>
    \o Tag("before", OnCommandEventHandler(willRunCommandHooks, command))
FireDidRun(command) ==
  <<<<"didRun", "">>>>
    \o Tag("after", OnCommandEventHandler(didRunCommandSuccessfullyHooks, command))

\* The test of line 274 on the handler's return value: "plain" when the
\* value is not awaited, "await" when it is, "typeError" when reading
\* result.then throws (typeof null is 'object', not 'undefined').
ResultShape(result) ==
  IF result = "undefined" THEN "plain"
  ELSE IF result = "null" THEN "typeError"
  ELSE IF result \in PendingShapes THEN "await"
  ELSE "plain"

\* Succeed with the event built from a field that the invocations share:
\* it holds the command and args of the invocation that started last.
SucceedSharedEvent(d, result) ==
  LET last == IF dispatches = <<>> THEN d ELSE dispatches[Len(dispatches)]
  IN [d EXCEPT !.pc = "returned",
               !.result = result,
               !.event = [command |-> last.command, args |-> last.args,
                          result |-> result],
               !.afterSnap = didRunCommandSuccessfullyHooks[d.command],
               !.didTurn = turn + 1,
               !.log = d.log \o FireDidRun(d.command) \o <<<<"return", "">>>>]

\* Lines 278-279: the success event is fired and the result returned.
Succeed(d, result) ==
  [d EXCEPT !.pc = "returned",
            !.result = result,
            !.event = [command |-> d.command, args |-> d.args, result |-> result],
            !.afterSnap = didRunCommandSuccessfullyHooks[d.command],
            !.didTurn = turn + 1,
            !.log = d.log \o FireDidRun(d.command) \o <<<<"return", "">>>>]

\* The async function throws: its promise rejects, which is what the caller
\* of the command gets.
Fail(d, why) ==
  [d EXCEPT !.pc = "rejected", !.failure = why]

\* StartDispatch with the before-hooks called directly rather than through
\* the emitter: a hook that throws ends the dispatch before the handler.
StartDispatchHookThrowEscapes(command, args, outcome) ==
  LET called == OnCommandEventHandler(willRunCommandHooks, command)
      d0 == [command |-> command, args |-> args, outcome |-> outcome,
             pc |-> "start", result |-> "-", event |-> NoEvent,
             failure |-> "none", settled |-> "-",
             beforeSnap |-> willRunCommandHooks[command], afterSnap |-> <<>>,
             handlerTurn |-> turn + 1, didTurn |-> 0,
             log |-> FireWillRun(command)]
      d1 == [d0 EXCEPT !.log = @ \o <<<<"handler", "">>>>]
  IN IF called # <<>> /\ HookThrows(called[Len(called)]) THEN Fail(d0, "hookThrew")
     ELSE IF outcome = "throw" THEN Fail(d1, "handlerThrew")
     ELSE IF ResultShape(outcome) = "typeError" THEN Fail(d1, "typeError")
     ELSE IF ResultShape(outcome) = "await" THEN [d1 EXCEPT !.pc = "awaiting"]
     ELSE Succeed(d1, outcome)

\* Lines 267-275: the synchronous start of a dispatch, up to the return, the
\* throw or the await.
StartDispatch(command, args, outcome) ==
  LET d0 == [command |-> command, args |-> args, outcome |-> outcome,
             pc |-> "start", result |-> "-", event |-> NoEvent,
             failure |-> "none", settled |-> "-",
             beforeSnap |-> willRunCommandHooks[command], afterSnap |-> <<>>,
             handlerTurn |-> turn + 1, didTurn |-> 0,
             log |-> FireWillRun(command) \o <<<<"handler", "">>>>]
  IN IF outcome = "throw" THEN Fail(d0, "handlerThrew")
     ELSE IF ResultShape(outcome) = "typeError" THEN Fail(d0, "typeError")
     ELSE IF ResultShape(outcome) = "await" THEN [d0 EXCEPT !.pc = "awaiting"]
     ELSE Succeed(d0, outcome)

\* AfterAwait with the rejection of the awaited promise swallowed.
AfterAwaitRejectionSwallowed(d, settled) ==
  Succeed(d, IF settled = "reject" THEN "undefined" ELSE settled)

\* Line 275 onwards, when the awaited value settles: `settled` is "reject"
\* or the value the await yields.
AfterAwait(d, settled) ==
  IF settled = "reject" THEN Fail(d, "handlerRejected")
  ELSE Succeed(d, settled)

\* What an await of the returned value can yield: a promise resolves to a
\* value or rejects; an object without then is yielded as it is.
Settlements(d) ==
  IF d.outcome = "promise" THEN ResolvedValues \cup {"reject"} ELSE {d.outcome}

TotalHooks ==
  LET RECURSIVE Sum(_)
      Sum(S) == IF S = {} THEN 0
                ELSE LET c == CHOOSE x \in S : TRUE
                     IN Len(willRunCommandHooks[c])
                        + Len(didRunCommandSuccessfullyHooks[c]) + Sum(S \ {c})
  IN Sum(Commands)

\* addHook('willRunCommandHooks', command, handler)
AddBeforeCommandHook(command, handler) ==
  /\ TotalHooks < MaxHooks
  /\ willRunCommandHooks' =
       [willRunCommandHooks EXCEPT ![command] = Append(@, handler)]
  /\ UNCHANGED <<didRunCommandSuccessfullyHooks, registered, dispatches, turn>>
  /\ UNCHANGED <<pluginVars, panelVars>>

\* addHook('didRunCommandSuccessfullyHooks', command, handler)
AddAfterCommandSuccessHook(command, handler) ==
  /\ TotalHooks < MaxHooks
  /\ didRunCommandSuccessfullyHooks' =
       [didRunCommandSuccessfullyHooks EXCEPT ![command] = Append(@, handler)]
  /\ UNCHANGED <<willRunCommandHooks, registered, dispatches, turn>>
  /\ UNCHANGED <<pluginVars, panelVars>>

\* registerCommand / registerTextEditorCommand: the command is bound once
\* (vscode refuses a second registration of the same id).
RegisterCommand(command) ==
  /\ command \notin registered
  /\ registered' = registered \cup {command}
  /\ UNCHANGED <<willRunCommandHooks, didRunCommandSuccessfullyHooks,
                 dispatches, turn>>
  /\ UNCHANGED <<pluginVars, panelVars>>

\* A caller executes a registered command.
Invoke(command, args, outcome) ==
  /\ command \in registered
  /\ Len(dispatches) < MaxDispatches
  /\ dispatches' = Append(dispatches, StartDispatch(command, args, outcome))
  /\ turn' = turn + 1
  /\ UNCHANGED <<willRunCommandHooks, didRunCommandSuccessfullyHooks, registered>>
  /\ UNCHANGED <<pluginVars, panelVars>>

\* The value a suspended dispatch awaits settles and the dispatch resumes.
Settle(i, settled) ==
  /\ dispatches[i].pc = "awaiting"
  /\ settled \in Settlements(dispatches[i])
  /\ dispatches' = [dispatches EXCEPT
                     ![i] = [AfterAwait(@, settled) EXCEPT !.settled = settled]]
  /\ turn' = turn + 1
  /\ UNCHANGED <<willRunCommandHooks, didRunCommandSuccessfullyHooks, registered>>
  /\ UNCHANGED <<pluginVars, panelVars>>

DispatchInit ==
  /\ willRunCommandHooks = [c \in Commands |-> <<>>]
  /\ didRunCommandSuccessfullyHooks = [c \in Commands |-> <<>>]
  /\ registered = {}
  /\ dispatches = <<>>
  /\ turn = 0

(***************************************************************************)
(* Part 2. The plugin registry: index.ts, lines 189-212 and 245-251.       *)
(***************************************************************************)

\* The plugins handed to registerPlugin.  A plugin is an object {name,
\* extensionId?, type?, register}; "" stands for a missing (falsy)
\* extensionId or type.  What register does is the plugin's business: it may
\* throw, and it may call registerPlugin on the extension it is given.
PluginNames == {"formatter", "pgDriver", "pgTools", "pgExtra", "broken",
                "brokenPg", "installer"}
ExtensionId(p) ==
  CASE p = "formatter" -> ""
    [] p \in {"pgDriver", "pgTools", "pgExtra", "brokenPg"} -> "ext.pg"
    [] p = "broken" -> "ext.bad"
    [] p = "installer" -> "ext.inst"
PluginType(p) ==
  CASE p \in {"pgDriver", "brokenPg", "installer"} -> "driver"
    [] p = "pgExtra" -> "general"
    [] OTHER -> ""
RegisterThrows(p) == p \in {"broken", "brokenPg"}
\* The plugins that p's register hands to registerPlugin before it returns.
RegistersInside(p) ==
  IF p = "installer" THEN <<"pgDriver", "broken">> ELSE <<>>

TypeKeys == {"general", "driver"}
NoExtPlugins == [t \in TypeKeys |-> <<>>]

NoCall == [passes |-> <<>>, reported |-> <<>>, recorders |-> {}, trace |-> <<>>]

Includes(list, x) == \E i \in 1..Len(list) : list[i] = x

\* RecordExtensionId without the includes test of line 198.
RecordExtensionIdAlwaysPush(ext, p) ==
  IF ExtensionId(p) = "" THEN ext
  ELSE LET key == IF PluginType(p) = "" THEN "general" ELSE PluginType(p)
       IN [ext EXCEPT ![key] = Append(@, ExtensionId(p))]

\* Lines 196-201: the extension id of a plugin is recorded under its type.
RecordExtensionId(ext, p) ==
  IF ExtensionId(p) = "" THEN ext
  ELSE LET key == IF PluginType(p) = "" THEN "general" ELSE PluginType(p)
       IN IF Includes(ext[key], ExtensionId(p)) THEN ext
          ELSE [ext EXCEPT ![key] = Append(@, ExtensionId(p))]

\* RegisterPlugin without the test of line 250: it only queues.
RegisterPluginOnlyQueues(m, plugins) ==
  [m EXCEPT !.queue = @ \o plugins]

\* The registry while a call runs: m.queue, m.ext, m.loaded and m.pending are
\* the fields of the extension; the rest is the record of what happened.
RECURSIVE LoadPlugins(_), LoadEach(_, _, _), LoadOne(_, _, _), RegisterPlugin(_, _)

\* Lines 194-204: one iteration of the loop over the drained queue, for pass
\* number k of this call.
LoadOne(m, k, p) ==
  LET called == [m EXCEPT !.calls[p] = @ + 1,
                          !.passes[k].invoked = Append(@, p),
                          !.trace = Append(@, <<"register", p, k>>)]
      \* plugin.register(this), which may call this.registerPlugin
      inside == IF RegistersInside(p) = <<>> THEN called
                ELSE RegisterPlugin(called, RegistersInside(p))
  IN IF RegisterThrows(p)
     THEN [inside EXCEPT !.reported = Append(@, p)]       \* catch: errorHandler
     ELSE [inside EXCEPT !.ext = RecordExtensionId(@, p),
                         !.recorders = IF ExtensionId(p) = "" THEN @
                                       ELSE @ \cup {p}]

\* LoadEach with the try/catch around the loop instead of inside it: the
\* first throw ends the pass.
LoadEachUntilThrow(m, k, queue) ==
  IF queue = <<>> THEN m
  ELSE IF RegisterThrows(Head(queue)) THEN LoadOne(m, k, Head(queue))
  ELSE LoadEach(LoadOne(m, k, Head(queue)), k, Tail(queue))

\* Line 193: for (let plugin of pluginsQueue)
LoadEach(m, k, queue) ==
  IF queue = <<>> THEN m
  ELSE LoadEach(LoadOne(m, k, Head(queue)), k, Tail(queue))

\* Lines 189-207.
LoadPlugins(m) ==
  LET k == Len(m.passes) + 1
      drained == [m EXCEPT !.queue = <<>>,
                           !.loaded = TRUE,
                           !.passes = Append(@, [queue |-> m.queue,
                                                 invoked |-> <<>>]),
                           !.trace = Append(@, <<"begin", "", k>>)]
      after == LoadEach(drained, k, m.queue)
  IN [after EXCEPT !.pending = TRUE,                      \* updateExtPluginsInfo()
                   !.trace = Append(@, <<"end", "", k>>)]

\* Lines 245-251.
RegisterPlugin(m, plugins) ==
  LET pushed == [m EXCEPT !.queue = @ \o plugins]
  IN IF pushed.loaded THEN LoadPlugins(pushed) ELSE pushed

\* The registry as a call from outside finds it.
Registry ==
  [queue |-> pluginsQueue, ext |-> extPlugins, loaded |-> loaded,
   pending |-> writePending, calls |-> registerCalls,
   passes |-> <<>>, reported |-> <<>>, recorders |-> {}, trace |-> <<>>]

Commit(m) ==
  /\ pluginsQueue' = m.queue
  /\ extPlugins' = m.ext
  /\ loaded' = m.loaded
  /\ writePending' = m.pending
  /\ registerCalls' = m.calls
  /\ lastCall' = [passes |-> m.passes, reported |-> m.reported,
                  recorders |-> m.recorders, trace |-> m.trace]

\* A caller (activate of line 294, or a plugin's code in a later turn) hands
\* plugins to registerPlugin.
CallRegisterPlugin(plugins) ==
  /\ Len(handed) + Len(plugins) <= MaxHanded
  /\ handed' = handed \o plugins
  /\ Commit(RegisterPlugin(Registry, plugins))
  /\ UNCHANGED persistedExtPlugins
  /\ UNCHANGED <<dispatchVars, panelVars>>

\* Line 64: activate calls loadPlugins.
CallLoadPlugins ==
  /\ ~loaded
  /\ Commit(LoadPlugins(Registry))
  /\ UNCHANGED <<persistedExtPlugins, handed>>
  /\ UNCHANGED <<dispatchVars, panelVars>>

\* Lines 209-212: the debounced write runs, once for all the calls of
\* updateExtPluginsInfo since the last write.
UpdateExtPluginsInfo ==
  /\ writePending
  /\ persistedExtPlugins' = extPlugins
  /\ writePending' = FALSE
  /\ UNCHANGED <<pluginsQueue, extPlugins, loaded, registerCalls, handed, lastCall>>
  /\ UNCHANGED <<dispatchVars, panelVars>>

PluginInit ==
  /\ pluginsQueue = <<>>
  /\ extPlugins = NoExtPlugins
  /\ loaded = FALSE
  /\ writePending = FALSE
  /\ persistedExtPlugins = NoExtPlugins
  /\ registerCalls = [p \in PluginNames |-> 0]
  /\ handed = <<>>
  /\ lastCall = NoCall

\* Sequences over S of length 1..n.
SeqsUpTo(S, n) == UNION {[1..k -> S] : k \in 1..n}

NextPlugins ==
  \/ \E ps \in SeqsUpTo(PluginNames, MaxHanded) : CallRegisterPlugin(ps)
  \/ CallLoadPlugins
  \/ UpdateExtPluginsInfo

(***************************************************************************)
(* Part 3. The results panel: Results/Main.tsx.                            *)
(***************************************************************************)

\* An optional value is a sequence: <<>> for undefined, <<v>> for v.
\* A result (NSDatabase.IResult) as the host sends it.  "" stands for a
\* string field that is missing.
ResultNames == {"records", "select", "failed", "denied"}
Result(name) ==
  CASE name = "records" ->
         [requestId |-> "req7", resultId |-> "res1", connId |-> "conn1",
          baseQuery |-> "base1", query |-> "query1",
          queryType |-> "showRecords", queryParams |-> "params1",
          pageSize |-> <<>>, page |-> <<0>>, error |-> "", messages |-> "log1"]
    [] name = "select" ->
         [requestId |-> "req8", resultId |-> "res2", connId |-> "conn1",
          baseQuery |-> "base2", query |-> "query2",
          queryType |-> "", queryParams |-> "",
          pageSize |-> <<10>>, page |-> <<1>>, error |-> "", messages |-> ""]
    [] name = "failed" ->
         [requestId |-> "req9", resultId |-> "res3", connId |-> "conn2",
          baseQuery |-> "base3", query |-> "query3",
          queryType |-> "", queryParams |-> "",
          pageSize |-> <<0>>, page |-> <<>>, error |-> "boom", messages |-> "log3"]
    [] name = "denied" ->
         [requestId |-> "req9", resultId |-> "res4", connId |-> "conn2",
          baseQuery |-> "base4", query |-> "query4",
          queryType |-> "describeTable", queryParams |-> "params4",
          pageSize |-> <<0>>, page |-> <<>>, error |-> "denied", messages |-> "log4"]
Results == {Result(n) : n \in ResultNames}
NoResult == [requestId |-> "", resultId |-> "", connId |-> "", baseQuery |-> "",
             query |-> "", queryType |-> "", queryParams |-> "",
             pageSize |-> <<>>, page |-> <<>>, error |-> "", messages |-> ""]

\* The error field of the state: null, undefined or a result.
NullError == [kind |-> "null", row |-> NoResult]
UndefinedError == [kind |-> "undefined", row |-> NoResult]
RowError(r) == [kind |-> "row", row |-> r]
Truthy(error) == error.kind = "row"

\* Lines 22-27.
initialState ==
  [loading |-> TRUE, error |-> NullError, resultTabs |-> <<>>, activeTab |-> 0]

\* { ...a, ...b }: the keys of both, b's values first.  A missing b
\* (undefined) is the empty record <<>>.
Spread(a, b) ==
  [k \in DOMAIN a \cup DOMAIN b |-> IF k \in DOMAIN b THEN b[k] ELSE a[k]]
NoPayload == <<>>

\* Lines 45-58.  The default branch throws; no caller reaches it.
reducer(s, action) ==
  CASE action.type = "RESET" -> initialState
    [] action.type = "RESULTS_RECEIVED" -> Spread(s, action.payload)
    [] action.type = "TOGGLE_TAB" -> [s EXCEPT !.activeTab = action.payload]
    [] action.type = "SET" -> Spread(s, action.payload)

\* Lines 36-43.
getCurrentQueryOptions(activeResult) ==
  [requestId |-> activeResult.requestId,
   resultId |-> activeResult.resultId,
   baseQuery |-> activeResult.baseQuery,
   connId |-> activeResult.connId]

\* Lines 69-72: queryResults[index], undefined out of the array.
getCurrentResult(s) ==
  IF s.activeTab + 1 \in 1..Len(s.resultTabs)
  THEN <<s.resultTabs[s.activeTab + 1]>> ELSE <<>>

\* pageSize || 50: the default for undefined and for 0.
DefaultPageSize == 50
PageSizeOrDefault(pageSize) ==
  IF pageSize = <<>> \/ pageSize = <<0>> THEN DefaultPageSize ELSE pageSize[1]

\* `${process.env.EXT_NAMESPACE}.${name}`; an undefined name prints as
\* "undefined".
Namespaced(name) ==
  <<"EXT_NAMESPACE", ".", IF name = "" THEN "undefined" ELSE name>>

\* sendMessage(action, payload), with the operation that sent it.
CallMessage(op, command, args) ==
  [action |-> "call", op |-> op, command |-> command, args |-> args]
DataMessage(action, op, payload) ==
  [action |-> action, op |-> op, payload |-> payload]

\* Line 77.
focusMessages(op) ==
  CallMessage(op, <<"EXT_NAMESPACE", "/", "consoleMessages.focus">>, <<>>)

\* What an operation did before React renders again: the state after its
\* dispatches (if any), the messages it sent, and whether resultTabs and
\* error were replaced by values of the message.
Outcome(s, dispatched, msgs, newTabs, newError) ==
  [state |-> s, dispatched |-> dispatched, sent |-> msgs,
   newTabs |-> newTabs, newError |-> newError, threw |-> FALSE]
\* The operation ended with a TypeError: it read a property of undefined.
Thrown(o) == [o EXCEPT !.threw = TRUE]
Untouched(s, msgs) == Outcome(s, FALSE, msgs, FALSE, FALSE)

\* The menu actions of ./constants.
MenuActions == {"ReRunQueryOption", "SaveCSVOption", "SaveJSONOption"}
\* Line 85.
FileType(choice) ==
  IF choice \in MenuActions
  THEN (IF choice = "SaveJSONOption" THEN "json" ELSE "csv")
  ELSE "undefined"

\* Lines 78-89.
exportResults(s, choice) ==
  LET activeResult == getCurrentResult(s)
  IN IF activeResult = <<>> THEN Untouched(s, <<>>)
     ELSE Untouched(s, <<CallMessage("export", Namespaced("saveResults"),
            <<Spread(getCurrentQueryOptions(activeResult[1]),
                     [fileType |-> FileType(choice)])>>)>>)

\* Lines 90-109.
reRunQuery(s) ==
  LET activeResult == getCurrentResult(s)
  IN IF activeResult = <<>> THEN Untouched(s, <<>>)
     ELSE LET r == activeResult[1]
              loading == reducer(s, [type |-> "SET", payload |-> [loading |-> TRUE]])
          IN IF r.queryType # ""
             THEN Outcome(loading, TRUE,
                    <<CallMessage("reRun", Namespaced(r.queryType),
                        <<r.queryParams,
                          Spread(getCurrentQueryOptions(r),
                                 [page |-> r.page,
                                  pageSize |-> PageSizeOrDefault(r.pageSize)])>>)>>,
                    FALSE, FALSE)
             ELSE Outcome(loading, TRUE,
                    <<CallMessage("reRun", Namespaced("executeQuery"),
                        <<r.query, getCurrentQueryOptions(r)>>)>>,
                    FALSE, FALSE)

\* changePage sending the query options of the active result, as reRunQuery
\* does.
changePageWithQueryOptions(s, page) ==
  LET activeResult == s.resultTabs[s.activeTab + 1]
  IN Outcome(reducer(s, [type |-> "SET", payload |-> [loading |-> TRUE]]), TRUE,
       <<CallMessage("changePage", Namespaced(activeResult.queryType),
           <<activeResult.queryParams,
             Spread(getCurrentQueryOptions(activeResult),
                    [page |-> <<page>>,
                     pageSize |-> PageSizeOrDefault(activeResult.pageSize)])>>)>>,
       FALSE, FALSE)

\* Lines 111-118.  The Table that calls changePage is rendered only with an
\* active result (line 184).
changePage(s, page) ==
  IF getCurrentResult(s) = <<>>
  THEN \* line 112 has dispatched; activeResult.queryType of line 115 throws
       Thrown(Outcome(reducer(s, [type |-> "SET", payload |-> [loading |-> TRUE]]),
                      TRUE, <<>>, FALSE, FALSE))
  ELSE LET activeResult == s.resultTabs[s.activeTab + 1]
       IN Outcome(reducer(s, [type |-> "SET", payload |-> [loading |-> TRUE]]), TRUE,
            <<CallMessage("changePage", Namespaced(activeResult.queryType),
                <<activeResult.queryParams,
                  [page |-> <<page>>,
                   pageSize |-> PageSizeOrDefault(activeResult.pageSize),
                   requestId |-> activeResult.requestId]>>)>>,
            FALSE, FALSE)

\* Line 75.
toggleTab(s, value) ==
  Outcome(reducer(s, [type |-> "TOGGLE_TAB", payload |-> value]), TRUE, <<>>,
          FALSE, FALSE)

\* FindError from the end of the payload: the last result with an error.
RECURSIVE FindErrorLast(_)
FindErrorLast(payload) ==
  IF payload = <<>> THEN UndefinedError
  ELSE IF payload[Len(payload)].error # "" THEN RowError(payload[Len(payload)])
  ELSE FindErrorLast(SubSeq(payload, 1, Len(payload) - 1))

\* Line 130: payload.find(r => !!r.error)
RECURSIVE FindError(_)
FindError(payload) ==
  IF payload = <<>> THEN UndefinedError
  ELSE IF Head(payload).error # "" THEN RowError(Head(payload))
  ELSE FindError(Tail(payload))

\* Line 74.
resetRequest(s) ==
  Outcome(reducer(s, [type |-> "RESULTS_RECEIVED", payload |-> NoPayload]), TRUE,
          <<>>, FALSE, FALSE)

\* Line 76.
resultsReceived(s, changes) ==
  Outcome(reducer(s, [type |-> "RESULTS_RECEIVED", payload |-> changes]), TRUE,
          <<>>, TRUE, changes.error # s.error \/ Truthy(changes.error))

\* messagesHandler with queryResults leaving the active tab where it was.
messagesHandlerKeepsTab(s, action, payload) ==
  IF action = "" THEN Untouched(s, <<>>)
  ELSE CASE action = "queryResults" ->
              resultsReceived(s, [resultTabs |-> payload,
                                  activeTab |-> s.activeTab,
                                  loading |-> FALSE,
                                  error |-> FindError(payload)])
         [] action = "reset" -> resetRequest(s)
         [] action = "getState" ->
              Untouched(s, <<DataMessage("receivedState", "getState", s)>>)
         [] OTHER -> Untouched(s, <<>>)

\* messagesHandler dropping the results that do not answer the latest
\* request of the panel.
messagesHandlerMatchesRequest(s, action, payload) ==
  IF action = "" THEN Untouched(s, <<>>)
  ELSE CASE action = "queryResults" ->
              IF issued # <<>> /\ \E i \in 1..Len(payload) :
                                    payload[i].requestId # issued[Len(issued)]
              THEN Untouched(s, <<>>)
              ELSE resultsReceived(s, [resultTabs |-> payload,
                                       activeTab |-> 0,
                                       loading |-> FALSE,
                                       error |-> FindError(payload)])
         [] action = "reset" -> resetRequest(s)
         [] action = "getState" ->
              Untouched(s, <<DataMessage("receivedState", "getState", s)>>)
         [] OTHER -> Untouched(s, <<>>)

\* messagesHandler with the default branch falling into the getState one.
messagesHandlerUnknownReplies(s, action, payload) ==
  IF action = "" THEN Untouched(s, <<>>)
  ELSE CASE action = "queryResults" ->
              resultsReceived(s, [resultTabs |-> payload,
                                  activeTab |-> 0,
                                  loading |-> FALSE,
                                  error |-> FindError(payload)])
         [] action = "reset" -> resetRequest(s)
         [] OTHER ->
              Untouched(s, <<DataMessage("receivedState", "getState", s)>>)

\* messagesHandler replying to getState with the state of the render that
\* installed the listener.
messagesHandlerMountState(s, action, payload) ==
  IF action = "" THEN Untouched(s, <<>>)
  ELSE CASE action = "queryResults" ->
              resultsReceived(s, [resultTabs |-> payload,
                                  activeTab |-> 0,
                                  loading |-> FALSE,
                                  error |-> FindError(payload)])
         [] action = "reset" -> resetRequest(s)
         [] action = "getState" ->
              Untouched(s, <<DataMessage("receivedState", "getState", initialState)>>)
         [] OTHER -> Untouched(s, <<>>)

\* Lines 121-142.  "" is a message without action.
messagesHandler(s, action, payload) ==
  IF action = "" THEN Untouched(s, <<>>)
  ELSE CASE action = "queryResults" ->
              resultsReceived(s, [resultTabs |-> payload,
                                  activeTab |-> 0,
                                  loading |-> FALSE,
                                  error |-> FindError(payload)])
         [] action = "reset" -> resetRequest(s)
         [] action = "getState" ->
              Untouched(s, <<DataMessage("receivedState", "getState", s)>>)
         [] OTHER -> Untouched(s, <<>>)

StoredState(s) == [kind |-> "state", value |-> s]
StoredNull == [kind |-> "null", value |-> initialState]
NothingStored == [kind |-> "none", value |-> initialState]

\* Line 166: the console messages of the active result, or [].
ConsoleMessages(s) ==
  LET activeResult == getCurrentResult(s)
  IN IF activeResult # <<>> /\ activeResult[1].messages # ""
     THEN activeResult[1].messages ELSE "[]"

\* Lines 155-173: the effects React runs after rendering the state an
\* operation left, `old` being the state rendered before: the messages the
\* effects send, in the order of the effects.
EffectMessages(old, o) ==
  (IF o.newTabs \/ o.state.activeTab # old.activeTab
   THEN <<DataMessage("syncConsoleMessages", "effect", ConsoleMessages(o.state))>>
   ELSE <<>>)
  \o (IF o.newError /\ Truthy(o.state.error)
      THEN <<focusMessages("effect")>> ELSE <<>>)

\* Persist running only when resultTabs is replaced (a dependency list
\* without `state`).
PersistOnNewTabsOnly(stored, o) ==
  IF o.newTabs THEN StoredState(o.state) ELSE stored

\* Lines 155-161: every dispatch makes a new state object, so the effect's
\* cleanup (setState(null)) and then the effect (setState(stateRef.current))
\* run after the render that follows it; without a dispatch nothing renders.
Persist(stored, o) ==
  IF o.dispatched THEN StoredState(o.state) ELSE stored

\* The calls among msgs that ask the host for results: the re-run and
\* pagination calls; the last of their args is the options object, which
\* carries the requestId of the active result (lines 97, 105 and 116).
Requests(msgs) ==
  SelectSeq(msgs, LAMBDA m : m.action = "call" /\ m.op \in {"reRun", "changePage"})
RequestIdOf(m) == m.args[Len(m.args)].requestId
\* The request before the latest one, and the latest one.
Issue(list, msgs) ==
  IF Requests(msgs) = <<>> THEN list
  ELSE IF list = <<>> THEN <<RequestIdOf(Requests(msgs)[1])>>
  ELSE <<list[Len(list)], RequestIdOf(Requests(msgs)[1])>>

\* The host answers a request with the results of that request: each
\* carries the request's id.
IsResponseTo(payload, id) ==
  payload # <<>> /\ \A i \in 1..Len(payload) : payload[i].requestId = id
Answer(op, o) ==
  IF Requests(o.sent) # <<>> THEN FALSE
  ELSE IF /\ op.op = "message" /\ op.action = "queryResults"
          /\ issued # <<>>
          /\ IsResponseTo(op.payload, issued[Len(issued)])
       THEN TRUE
       ELSE answered

\* An operation of the mounted panel and the rendering that follows it.
Perform(op, o) ==
  /\ mounted
  /\ issued' = Issue(issued, o.sent)
  /\ answered' = Answer(op, o)
  /\ state' = o.state
  /\ sent' = IF o.dispatched THEN o.sent \o EffectMessages(state, o) ELSE o.sent
  /\ viewState' = Persist(viewState, o)
  /\ lastOp' = [op EXCEPT !.threw = o.threw]
  /\ UNCHANGED mounted
  /\ UNCHANGED <<dispatchVars, pluginVars>>

Op(name, action, payload, number, choice) ==
  [op |-> name, action |-> action, payload |-> payload, number |-> number,
   choice |-> choice, threw |-> FALSE]

\* Lines 61 and 144-173: the component mounts with the initial state and
\* its effects run.
Mount ==
  /\ ~mounted
  /\ mounted' = TRUE
  /\ state' = initialState
  /\ viewState' = StoredState(initialState)
  /\ sent' = <<DataMessage("viewReady", "effect", "true"),
               DataMessage("syncConsoleMessages", "effect",
                           ConsoleMessages(initialState))>>
  /\ lastOp' = Op("mount", "", <<>>, 0, "")
  /\ issued' = <<>>
  /\ answered' = FALSE
  /\ UNCHANGED <<dispatchVars, pluginVars>>

\* Lines 149-152 and 158-160: the cleanups of the effects.
Unmount ==
  /\ mounted
  /\ mounted' = FALSE
  /\ viewState' = StoredNull
  /\ sent' = <<>>
  /\ lastOp' = Op("unmount", "", <<>>, 0, "")
  /\ issued' = <<>>
  /\ answered' = FALSE
  /\ UNCHANGED state
  /\ UNCHANGED <<dispatchVars, pluginVars>>

\* Line 61: stateRef.current, the third value of utils/useReducer.base, is
\* the state that the dispatches so far have produced.
StateRefCurrent == state

\* The host posts a message to the panel.
ReceiveMessage(action, payload) ==
  /\ mounted
  /\ Perform(Op("message", action, payload, 0, ""),
             messagesHandler(StateRefCurrent, action, payload))

\* Line 183: the Tabs component is given one item per result and calls
\* onChange with the index of the item picked.
TabsOffered(s) == 0..(Len(s.resultTabs) - 1)

\* The user picks a tab of the Tabs component.
ToggleTab(value) ==
  /\ value \in TabsOffered(state)
  /\ Perform(Op("toggleTab", "", <<>>, value, ""), toggleTab(state, value))

\* The user asks for the query to be run again (lines 199 and 206).
ReRunQuery ==
  /\ mounted
  /\ Perform(Op("reRun", "", <<>>, 0, ""), reRunQuery(StateRefCurrent))

\* The user asks for an export (lines 200, 201 and 207).
ExportResults(choice) ==
  /\ mounted
  /\ Perform(Op("export", "", <<>>, 0, choice),
             exportResults(StateRefCurrent, choice))

\* ChangePage with the Table rendered whether or not there is an active
\* result.
ChangePageWithoutActiveResult(page) ==
  /\ mounted
  /\ Perform(Op("changePage", "", <<>>, page, ""), changePage(state, page))

\* The user asks for another page of the table (line 196).
ChangePage(page) ==
  /\ getCurrentResult(state) # <<>>
  /\ Perform(Op("changePage", "", <<>>, page, ""), changePage(state, page))

\* The user presses Console (line 205).
FocusMessages ==
  /\ getCurrentResult(state) # <<>>
  /\ Perform(Op("focus", "", <<>>, 0, ""), Untouched(state, <<focusMessages("focus")>>))

PanelInit ==
  /\ state = initialState
  /\ mounted = FALSE
  /\ viewState = NothingStored
  /\ sent = <<>>
  /\ lastOp = Op("none", "", <<>>, 0, "")
  /\ issued = <<>>
  /\ answered = FALSE

MessageActions == {"queryResults", "reset", "getState", "refresh", ""}
Payloads == {<<>>} \cup UNION {[1..k -> Results] : k \in 1..MaxTabs}
\* Only queryResults reads its payload.
PayloadsOf(action) == IF action = "queryResults" THEN Payloads ELSE {<<>>}
Choices == MenuActions \cup {"click"}

NextPanel ==
  \/ Mount
  \/ Unmount
  \/ \E a \in MessageActions : \E p \in PayloadsOf(a) : ReceiveMessage(a, p)
  \/ \E v \in 0..MaxTabs : ToggleTab(v)
  \/ ReRunQuery
  \/ \E c \in Choices : ExportResults(c)
  \/ \E n \in 0..MaxPage : ChangePage(n)
  \/ FocusMessages

Init == DispatchInit /\ PluginInit /\ PanelInit

NextDispatch ==
  \/ \E c \in Commands, h \in HookIds : AddBeforeCommandHook(c, h)
  \/ \E c \in Commands, h \in HookIds : AddAfterCommandSuccessHook(c, h)
  \/ \E c \in Commands : RegisterCommand(c)
  \/ \E c \in Commands, a \in ArgLists, o \in HandlerOutcomes : Invoke(c, a, o)
  \/ \E i \in 1..Len(dispatches), s \in ResolvedValues \cup PendingShapes \cup {"reject"} :
       Settle(i, s)

SpecDispatch == Init /\ [][NextDispatch]_vars
SpecPlugins == Init /\ [][NextPlugins]_vars
SpecPanel == Init /\ [][NextPanel]_vars

(***************************************************************************)
(* Properties.                                                             *)
(***************************************************************************)

\* The hooks a dispatch called in a phase, in the order of the calls.
HooksCalled(log, kind) ==
  LET sel == SelectSeq(log, LAMBDA e : e[1] = kind)
  IN [j \in 1..Len(sel) |-> sel[j][2]]
HandlerPos(log) == CHOOSE j \in 1..Len(log) : log[j][1] = "handler"
HandlerFailed(d) == d.outcome = "throw" \/ d.settled = "reject"

\* C1: a dispatch calls every before-hook registered for its command once,
\* in registration order, before the handler, and, only if the handler
\* succeeds, every after-hook once, in registration order, after the handler.
C1_AllHooksOnceInOrder ==
  \A i \in 1..Len(dispatches) :
    LET d == dispatches[i]
    IN /\ HooksCalled(d.log, "before") = d.beforeSnap
       /\ \A j \in 1..Len(d.log) :
            /\ d.log[j][1] = "before" => j < HandlerPos(d.log)
            /\ d.log[j][1] = "after" => j > HandlerPos(d.log)
       /\ d.pc = "returned" => HooksCalled(d.log, "after") = d.afterSnap
       /\ HandlerFailed(d) => HooksCalled(d.log, "after") = <<>>

\* C2: a dispatch whose handler throws, or returns a promise that rejects,
\* emits no "ran successfully" event, calls no after-hook, and is rejected to
\* its caller.
C2_FailedHandlerNoSuccess ==
  \A i \in 1..Len(dispatches) :
    LET d == dispatches[i]
    IN HandlerFailed(d) =>
         /\ d.pc = "rejected"
         /\ d.event = NoEvent
         /\ \A j \in 1..Len(d.log) : d.log[j][1] \notin {"didRun", "after", "return"}

\* A handler's promise rejected while after-hooks were registered for it.
C2_Witness ==
  \E i \in 1..Len(dispatches) :
    /\ dispatches[i].settled = "reject"
    /\ Len(didRunCommandSuccessfullyHooks[dispatches[i].command]) > 0

\* C3: when the handler returns a plain value (undefined and null included),
\* the "ran successfully" event fires in the turn of the handler call and
\* carries the command, the args and that very value.
C3_PlainValueSameTurn ==
  \A i \in 1..Len(dispatches) :
    LET d == dispatches[i]
    IN d.outcome \in PlainValues =>
         /\ d.pc = "returned"
         /\ d.didTurn = d.handlerTurn
         /\ d.event = [command |-> d.command, args |-> d.args, result |-> d.outcome]

Throwers(queue) == {i \in 1..Len(queue) : RegisterThrows(queue[i])}
TypeKey(p) == IF PluginType(p) = "" THEN "general" ELSE PluginType(p)

\* C4: in a pass over a queue with exactly one throwing plugin, register is
\* invoked on every plugin of the queue, every non-throwing plugin with an
\* extension id has it in extPlugins under its type, and the throwing plugin
\* is reported by name and records nothing: an id is in extPlugins only on
\* account of a plugin whose register returned.
C4_OneThrowerIsolated ==
  /\ \A k \in 1..Len(lastCall.passes) :
       LET pass == lastCall.passes[k]
       IN Cardinality(Throwers(pass.queue)) = 1 =>
            /\ pass.invoked = pass.queue
            /\ \A i \in 1..Len(pass.queue) :
                 LET p == pass.queue[i]
                 IN IF RegisterThrows(p)
                    THEN /\ Includes(lastCall.reported, p)
                         /\ p \notin lastCall.recorders
                    ELSE ExtensionId(p) # "" =>
                           Includes(extPlugins[TypeKey(p)], ExtensionId(p))
  /\ \A t \in TypeKeys : \A i \in 1..Len(extPlugins[t]) :
       \E p \in PluginNames :
         /\ ~RegisterThrows(p)
         /\ registerCalls[p] > 0
         /\ ExtensionId(p) = extPlugins[t][i]
         /\ TypeKey(p) = t

\* A pass whose queue has its one throwing plugin between two others, the one
\* after it with an extension id.
C4_Witness ==
  \E k \in 1..Len(lastCall.passes) :
    LET q == lastCall.passes[k].queue
    IN /\ Cardinality(Throwers(q)) = 1
       /\ \E i \in 2..(Len(q) - 1) :
            /\ RegisterThrows(q[i])
            /\ ExtensionId(q[i]) # ""
            /\ ExtensionId(q[i + 1]) # ""

NoDuplicates(list) ==
  \A i, j \in 1..Len(list) : list[i] = list[j] => i = j

\* C5: no list of extPlugins, and none of what is persisted from it, holds
\* an id twice.
C5_NoDuplicateIds ==
  \A t \in TypeKeys :
    /\ NoDuplicates(extPlugins[t])
    /\ NoDuplicates(persistedExtPlugins[t])

\* The same plugin was loaded twice, and two plugins with one id under one
\* type were loaded, and the outcome was written.
C5_Witness ==
  /\ \/ registerCalls["pgDriver"] >= 2
     \/ registerCalls["pgTools"] >= 1 /\ registerCalls["pgExtra"] >= 1
  /\ ~writePending
  /\ \E t \in TypeKeys : persistedExtPlugins[t] # <<>>

\* C6: no plugin's register is invoked more than once.
C6_LoadedAtMostOnce ==
  \A p \in PluginNames : registerCalls[p] <= 1

\* C7: after the panel has handled a reset message the state is the initial
\* state, whatever it was before.
C7_ResetRestoresInitialState ==
  (lastOp.op = "message" /\ lastOp.action = "reset") => state = initialState

\* C8: after a queryResults message with payload P the state has
\* resultTabs = P, activeTab = 0, loading = false and, for error, the first
\* result of P with an error, or no error when P has none.
C8_QueryResultsApplied ==
  (lastOp.op = "message" /\ lastOp.action = "queryResults") =>
    LET P == lastOp.payload
        WithError == {i \in 1..Len(P) : P[i].error # ""}
    IN /\ state.resultTabs = P
       /\ state.activeTab = 0
       /\ state.loading = FALSE
       /\ IF WithError = {} THEN ~Truthy(state.error)
          ELSE \E i \in WithError :
                 /\ \A j \in WithError : i <= j
                 /\ state.error = RowError(P[i])

\* A payload of two different results, both with an error.
C8_Witness ==
  /\ lastOp.op = "message" /\ lastOp.action = "queryResults"
  /\ Len(lastOp.payload) = 2
  /\ lastOp.payload[1].error # ""
  /\ lastOp.payload[2].error # ""
  /\ lastOp.payload[1] # lastOp.payload[2]

C10_CallsCarryQueryOptions ==
  \A i \in 1..Len(sent) :
    (sent[i].action = "call" /\ sent[i].op \in {"reRun", "changePage", "export"}) =>
      LET r == state.resultTabs[state.activeTab + 1]
          options == sent[i].args[Len(sent[i].args)]
      IN /\ \A k \in {"requestId", "resultId", "connId", "baseQuery"} :
              k \in DOMAIN options /\ options[k] = r[k]
         /\ sent[i].op = "changePage" => {"page", "pageSize"} \subseteq DOMAIN options
         /\ sent[i].op = "export" => "fileType" \in DOMAIN options

\* C11: whenever the panel sends a call to the host on a user's request
\* (re-run, pagination, export, console focus), the state's loading flag is
\* true once the request has been handled, before any response is.
C11_CallsSetLoading ==
  \A i \in 1..Len(sent) :
    (sent[i].action = "call" /\ sent[i].op \in {"reRun", "changePage", "export", "focus"})
      => state.loading = TRUE

\* C12: whenever resultTabs is not empty, activeTab is the index of one of
\* its elements.
C12_ActiveTabInRange ==
  Len(state.resultTabs) > 0 =>
    (0 <= state.activeTab /\ state.activeTab < Len(state.resultTabs))

\* The user has picked the second of two tabs.
C12_Witness ==
  /\ lastOp.op = "toggleTab"
  /\ Len(state.resultTabs) = 2
  /\ state.activeTab = 1

KnownActions == {"queryResults", "reset", "getState"}

\* C13: handling a message whose action is none of queryResults, reset and
\* getState, or that has no action, leaves the state (and what is stored of
\* it) as it was and sends nothing, and the panel is still mounted with its
\* listener afterwards.
C13_UnknownMessageDropped ==
  [][(lastOp'.op = "message" /\ lastOp'.action \notin KnownActions)
       => (/\ state' = state
           /\ viewState' = viewState
           /\ sent' = <<>>
           /\ mounted')]_vars

\* An unknown message was handled by a panel that shows results.
C13_Witness ==
  /\ lastOp.op = "message"
  /\ lastOp.action = "refresh"
  /\ Len(state.resultTabs) > 0

\* C14: handling a getState message sends exactly one message, a
\* receivedState whose payload is the whole state as the operations before
\* it left it, and leaves the state unchanged.
C14_GetStateRepliesCurrentState ==
  [][(lastOp'.op = "message" /\ lastOp'.action = "getState")
       => (/\ sent' = <<[action |-> "receivedState", op |-> "getState",
                         payload |-> state]>>
           /\ DOMAIN state = {"loading", "error", "resultTabs", "activeTab"}
           /\ state' = state)]_vars

\* getState was answered by a panel that had received two results and whose
\* user had picked the second tab.
C14_Witness ==
  /\ lastOp.op = "message"
  /\ lastOp.action = "getState"
  /\ Len(state.resultTabs) = 2
  /\ state.activeTab = 1
  /\ Len(sent) = 1

\* C15: while the panel is mounted the stored snapshot is the state; after
\* unmount it is null; a stored snapshot is never anything but the state.
C15_ViewStateMirrorsState ==
  /\ mounted => viewState = StoredState(state)
  /\ lastOp.op = "unmount" => viewState = StoredNull
  /\ ~mounted => viewState.kind # "state"

\* The last state change was a tab toggle, which replaces neither resultTabs
\* nor its length.
C15_Witness ==
  /\ mounted
  /\ lastOp.op = "toggleTab"
  /\ state.activeTab = 1
  /\ viewState = StoredState(state)

\* C16: a plugin registered from inside a register call waits for the next
\* pass: between two register invocations of one pass no plugin of another
\* pass has its register invoked, and each pass invokes register on the
\* plugins of the queue it drained, in queue order.
C16_NestedRegistrationWaits ==
  LET t == lastCall.trace
  IN /\ \A i, j \in 1..Len(t) :
          (i < j /\ t[i][1] = "register" /\ t[j][1] = "register" /\ t[i][3] = t[j][3])
            => \A x \in i..j : t[x][1] = "register" => t[x][3] = t[i][3]
     /\ \A k \in 1..Len(lastCall.passes) :
          lastCall.passes[k].invoked = lastCall.passes[k].queue

\* How often p occurs in a list.
Count(list, p) == Cardinality({i \in 1..Len(list) : list[i] = p})

\* C17: a registerPlugin call made before the first loadPlugins only appends
\* what it is given to the queue, which then holds everything registered so
\* far, in order, and invokes no register; the first loadPlugins drains that
\* queue; a registerPlugin call made after it starts a pass with what it is
\* given at once, and when it returns the queue is empty and register has
\* been invoked on every plugin it was given.
C17_RegisterPluginQueuesOrLoads ==
  [][/\ handed' # handed =>
          LET given == SubSeq(handed', Len(handed) + 1, Len(handed'))
          IN IF ~loaded
             THEN /\ pluginsQueue' = pluginsQueue \o given
                  /\ pluginsQueue' = handed'
                  /\ \A p \in PluginNames : registerCalls'[p] = 0
                  /\ lastCall'.passes = <<>>
                  /\ ~loaded'
             ELSE /\ pluginsQueue' = <<>>
                  /\ Len(lastCall'.passes) >= 1
                  /\ lastCall'.passes[1].queue = given
                  /\ \A p \in PluginNames :
                       registerCalls'[p] >= registerCalls[p] + Count(given, p)
     /\ (~loaded /\ loaded') =>
          /\ lastCall'.passes[1].queue = handed
          /\ pluginsQueue' = <<>>]_vars

\* After the first load a registerPlugin call was given two plugins, the
\* first of which registers others from inside its register.
C17_Witness ==
  /\ loaded
  /\ Len(lastCall.passes) = 2
  /\ lastCall.passes[1].queue = <<"installer", "formatter">>
  /\ handed = <<"pgTools", "installer", "formatter">>
  /\ registerCalls["pgTools"] = 1

CountKind(log, kind) == Cardinality({j \in 1..Len(log) : log[j][1] = kind})

\* C18: whatever the interleaving, a dispatch emits one "will run" event and
\* at most one "ran successfully" event; a dispatch whose handler returned a
\* pending result emits the latter only once that result has resolved, in a
\* later turn, with its own command and args and the resolved value.
C18_DispatchesIndependent ==
  \A i \in 1..Len(dispatches) :
    LET d == dispatches[i]
    IN /\ CountKind(d.log, "willRun") = 1
       /\ CountKind(d.log, "didRun") <= 1
       /\ (CountKind(d.log, "didRun") = 1) <=> (d.event # NoEvent)
       /\ d.outcome \in PendingShapes =>
            /\ d.pc = "awaiting" => d.event = NoEvent
            /\ d.event # NoEvent =>
                 /\ d.settled \notin {"-", "reject"}
                 /\ d.didTurn > d.handlerTurn
                 /\ d.event = [command |-> d.command, args |-> d.args,
                               result |-> d.settled]

\* Two dispatches of one command with different args, both returning a
\* promise: the second started and completed while the first was suspended,
\* and the first then resolved to another value.
C18_Witness ==
  /\ Len(dispatches) = 2
  /\ dispatches[1].command = dispatches[2].command
  /\ dispatches[1].args # dispatches[2].args
  /\ dispatches[1].outcome = "promise" /\ dispatches[2].outcome = "promise"
  /\ dispatches[1].pc = "returned" /\ dispatches[2].pc = "returned"
  /\ dispatches[1].handlerTurn < dispatches[2].handlerTurn
  /\ dispatches[2].didTurn < dispatches[1].didTurn
  /\ dispatches[1].result # dispatches[2].result

\* C19: a dispatch calls its handler once whatever its before-hooks do, and
\* once the success event has been fired it returns the handler's result to
\* the caller whatever the after-hooks do.
C19_HooksNeverVeto ==
  \A i \in 1..Len(dispatches) :
    LET d == dispatches[i]
        value == IF d.outcome \in PendingShapes THEN d.settled ELSE d.outcome
    IN /\ CountKind(d.log, "handler") = 1
       /\ CountKind(d.log, "didRun") = 1 =>
            /\ d.pc = "returned"
            /\ d.result = value
            /\ d.log[Len(d.log)][1] = "return"

\* A dispatch that returned its handler's result although a before-hook and
\* an after-hook of its command threw.
C19_Witness ==
  \E i \in 1..Len(dispatches) :
    LET d == dispatches[i]
    IN /\ d.pc = "returned"
       /\ d.result = "v1"
       /\ \E j \in 1..Len(d.log) : d.log[j] = <<"before", "hx">>
       /\ \E j \in 1..Len(d.log) : d.log[j] = <<"after", "hx">>

\* C20: a queryResults message that answers the request before the latest
\* one (another request) is applied like any other, whether or not the
\* latest request has been answered: resultTabs is its payload, activeTab
\* is 0 and loading is false.
C20_StaleResponseApplied ==
  (/\ lastOp.op = "message" /\ lastOp.action = "queryResults"
   /\ Len(issued) = 2
   /\ issued[1] # issued[2]
   /\ IsResponseTo(lastOp.payload, issued[1]))
  => /\ state.resultTabs = lastOp.payload
     /\ state.activeTab = 0
     /\ state.loading = FALSE

\* Request A, then request B for another result, then the response to B,
\* then the response to A: the panel shows A's results.
C20_Witness ==
  /\ lastOp.op = "message" /\ lastOp.action = "queryResults"
  /\ Len(issued) = 2
  /\ issued[1] # issued[2]
  /\ answered
  /\ IsResponseTo(lastOp.payload, issued[1])
  /\ IsResponseTo(state.resultTabs, issued[1])

\* C21: in a state where the active tab addresses no result, a re-run and
\* an export send nothing and leave the state (loading included) and what
\* is stored of it as they were, and no operation that the panel can perform
\* there reads a property of the missing result.
C21_NoTabHandledGracefully ==
  [][getCurrentResult(state) = <<>> =>
       /\ lastOp'.op \in {"reRun", "export"} =>
            (state' = state /\ viewState' = viewState /\ sent' = <<>>)
       /\ ~lastOp'.threw]_vars

\* An export was asked of a panel that had received an empty list of
\* results, loading being false.
C21_Witness ==
  /\ mounted
  /\ lastOp.op = "export"
  /\ state.resultTabs = <<>>
  /\ state.loading = FALSE
  /\ sent = <<>>
====
